---- MODULE Spec2Model ----
(***************************************************************************)
(* Model of GDFB.py: class GeoGrid, a dict subclass that bins (lat, lon)   *)
(* coordinates into the tiles of a rectangle.                              *)
(*                                                                         *)
(* Objects live in a heap (a sequence of grid records, a reference is an   *)
(* index), so that copy() and aliasing are visible.  A grid's dict part is *)
(* `store`, a sequence of <<key, value>> pairs in insertion order.         *)
(* Coordinates are integers (the configurations below keep every tile size *)
(* integral, so Python's float arithmetic on them is exact); stored values *)
(* are exact rationals <<numerator, denominator>>.  Python axis d in (0,1) *)
(* is tuple index d+1 here.                                                *)
(***************************************************************************)
EXTENDS Integers, Sequences, FiniteSets, TLC

VARIABLES heap, last, err, writes

vars == <<heap, last, err, writes>>

\* ---- bounds of the model ----
MaxGrids == 3
MaxWrites == 1
MaxExp == 2
MaxBase == 1000

\* ---- exceptions ----
ZeroDivisionError == "ZeroDivisionError"
ValueError == "ValueError"
NoError == "none"
Unmodelled == "unmodelled"

Axes == {1, 2}

Abs(x) == IF x < 0 THEN -x ELSE x

Min(a, b) == IF a <= b THEN a ELSE b

Max(a, b) == IF a >= b THEN a ELSE b

\* Python's a % t on numbers: the result takes the sign of the divisor t.
PyMod(a, t) == IF t > 0 THEN a % t ELSE -((-a) % (-t))

\* Python's a / b on the integral values of the model (b # 0, b divides a).
TrueDiv(a, b) == IF b > 0 THEN a \div b ELSE -(a \div (-b))

\* Python's int(a / b): the quotient truncated toward zero.
IntDiv(a, b) ==
  LET q == Abs(a) \div Abs(b)
  IN  IF (a < 0) = (b < 0) THEN q ELSE -q

\* ---- exact rationals for the stored values ----
RECURSIVE GCD(_, _)
GCD(a, b) == IF b = 0 THEN a ELSE GCD(b, a % b)

Norm(n, d) ==
  LET g == GCD(Abs(n), Abs(d))
      s == IF d < 0 THEN -1 ELSE 1
  IN  <<(s * n) \div g, (s * d) \div g>>

Num(v) == <<v, 1>>

RECURSIVE IPow(_, _)
IPow(b, e) == IF e = 0 THEN 1 ELSE b * IPow(b, e - 1)

\* The values the model computes with exactly.
Small(x) == Abs(x[1]) <= MaxBase /\ x[2] <= MaxBase

\* The scalar operators /, +, -, *, ** of lines 95-103 on two values:
\* what x op y raises (operands outside the exact range, and powers with a
\* fractional or large exponent, are not modelled) ...
ScalarRaises(op, x, y) ==
  IF ~(Small(x) /\ Small(y)) THEN Unmodelled
  ELSE CASE op = "div" -> IF y[1] = 0 THEN ZeroDivisionError ELSE NoError
         [] op = "pow" ->
              IF y[2] # 1 \/ Abs(y[1]) > MaxExp THEN Unmodelled
              ELSE IF y[1] < 0 /\ x[1] = 0 THEN ZeroDivisionError ELSE NoError
         [] OTHER -> NoError

\* ... and its value where it raises nothing.
ScalarOp(op, x, y) ==
  CASE op = "add" -> Norm(x[1] * y[2] + y[1] * x[2], x[2] * y[2])
    [] op = "sub" -> Norm(x[1] * y[2] - y[1] * x[2], x[2] * y[2])
    [] op = "mul" -> Norm(x[1] * y[1], x[2] * y[2])
    [] op = "div" -> Norm(x[1] * y[2], x[2] * y[1])
    [] op = "pow" ->
         IF y[1] >= 0 THEN <<IPow(x[1], y[1]), IPow(x[2], y[1])>>
         ELSE Norm(IPow(x[2], -y[1]), IPow(x[1], -y[1]))

Ops == {"add", "sub", "mul", "div", "pow"}

\* ---- GeoGrid.__init__ (lines 27-35) ----
NormRect(rect) ==
  << <<Min(rect[1][1], rect[2][1]), Min(rect[1][2], rect[2][2])>>,
     <<Max(rect[1][1], rect[2][1]), Max(rect[1][2], rect[2][2])>> >>

\* gridsize[d-1] for Python axis d: axis 0 uses gridsize[-1], axis 1 gridsize[0].
GridDim(gridsize, d) == IF d = 1 THEN gridsize[2] ELSE gridsize[1]

TileSize(rect, gridsize) ==
  << TrueDiv(Abs(rect[1][1] - rect[2][1]), GridDim(gridsize, 1)),
     TrueDiv(Abs(rect[1][2] - rect[2][2]), GridDim(gridsize, 2)) >>

\* The constructor raises only where the division of line 34 does.
InitRaises(rect, gridsize) == \E d \in Axes : GridDim(gridsize, d) = 0

GeoGrid(rect, gridsize, default) ==
  [rect |-> NormRect(rect),
   default |-> default,
   gridsize |-> <<gridsize[1], gridsize[2]>>,
   tilesize |-> TileSize(rect, gridsize),
   store |-> <<>>]

\* ---- get_tile_of_coord (lines 61-65) ----
TileRaises(g) == \E d \in Axes : g.tilesize[d] = 0

get_tile_of_coord(g, coord) ==
  LET tile(d) == coord[d] - PyMod(coord[d], g.tilesize[d])
                          + PyMod(g.rect[1][d], g.tilesize[d])
  IN  <<tile(1), tile(2)>>

\* ---- the dict part ----
Keys(store) == {store[i][1] : i \in 1..Len(store)}

HasKey(store, key) == \E i \in 1..Len(store) : store[i][1] = key

\* Mutant: a missing key reads as 0 instead of the default.
DictGetZero(g, key) ==
  IF HasKey(g.store, key)
  THEN LET i == CHOOSE i \in 1..Len(g.store) : g.store[i][1] = key
       IN  g.store[i][2]
  ELSE Num(0)

\* dict.__getitem__ on a subclass: a missing key goes to __missing__ (78-79).
DictGet(g, key) ==
  IF HasKey(g.store, key)
  THEN LET i == CHOOSE i \in 1..Len(g.store) : g.store[i][1] = key
       IN  g.store[i][2]
  ELSE g.default

\* dict.__setitem__: an existing key keeps its position.
DictSet(store, key, value) ==
  IF HasKey(store, key)
  THEN [i \in 1..Len(store) |->
          IF store[i][1] = key THEN <<key, value>> ELSE store[i]]
  ELSE Append(store, <<key, value>>)

\* ---- __setitem__ (lines 67-71): the grid after self[coord] = value ----
SetRaises(g, value) == value # g.default /\ TileRaises(g)

\* Mutant: the value is stored whatever it is.
SetItemAlways(g, coord, value) ==
  IF TileRaises(g) THEN g
  ELSE [g EXCEPT !.store = DictSet(g.store, get_tile_of_coord(g, coord), value)]

\* Mutant: writing the default deletes the tile's entry.
SetItemClears(g, coord, value) ==
  IF value # g.default
  THEN [g EXCEPT !.store = DictSet(g.store, get_tile_of_coord(g, coord), value)]
  ELSE IF TileRaises(g) THEN g
  ELSE [g EXCEPT !.store = SelectSeq(g.store,
                     LAMBDA kv : kv[1] # get_tile_of_coord(g, coord))]

SetItem(g, coord, value) ==
  IF value # g.default
  THEN [g EXCEPT !.store = DictSet(g.store, get_tile_of_coord(g, coord), value)]
  ELSE g

\* ---- __getitem__ (lines 73-76) ----
GetItem(g, coord) == DictGet(g, get_tile_of_coord(g, coord))

\* ---- set_from_grid (lines 105-111) ----
GridKeySwapped(g, tile) ==
  LET key(d) == tile[3 - d] * g.tilesize[d] + g.rect[1][d]
  IN  <<key(1), key(2)>>

GridKey(g, tile) ==
  LET key(d) == tile[d] * g.tilesize[d] + g.rect[1][d]
  IN  <<key(1), key(2)>>

set_from_grid(g, tile, value) == SetItem(g, GridKey(g, tile), value)

\* ---- yield_grid (lines 113-121): the sequence of (pos, value) it yields ----
GridPos(g, tile) ==
  LET pos(d) == IntDiv(tile[d] - g.rect[1][d], g.tilesize[d])
  IN  <<pos(1), pos(2)>>

yield_grid(g) ==
  [i \in 1..Len(g.store) |-> <<GridPos(g, g.store[i][1]), GetItem(g, g.store[i][1])>>]

\* ---- copy(self) (line 87) ----
\* copy.copy of a dict subclass: a new object of the class gets the instance
\* attributes, then every item is written with y[key] = value, which is the
\* overridden __setitem__.
RECURSIVE Refill(_, _, _)
Refill(y, items, i) ==
  IF i > Len(items) THEN y
  ELSE Refill(SetItem(y, items[i][1], items[i][2]), items, i + 1)

\* Mutant: no copy is made, the result is self.
copyAlias(h, r) == [heap |-> h, ref |-> r]

copy(h, r) ==
  [heap |-> Append(h, Refill([h[r] EXCEPT !.store = <<>>], h[r].store, 1)),
   ref |-> Len(h) + 1]

\* ---- __grid_operation (lines 81-103) ----
\* The loop `for coord in other: geogrid[coord] op= other[coord]` from the
\* i-th key of other on; gives the heap it leaves and what it raised.
RECURSIVE Combine(_, _, _, _, _)
Combine(h, op, other, geogrid, i) ==
  IF i > Len(h[other].store) THEN [exc |-> NoError, heap |-> h]
  ELSE LET coord == h[other].store[i][1]
           x == GetItem(h[geogrid], coord)
           y == GetItem(h[other], coord)
           e == IF TileRaises(h[geogrid]) \/ TileRaises(h[other])
                THEN ZeroDivisionError
                ELSE ScalarRaises(op, x, y)
       IN  IF e # NoError THEN [exc |-> e, heap |-> h]
           ELSE Combine([h EXCEPT ![geogrid] = SetItem(h[geogrid], coord, ScalarOp(op, x, y))],
                        op, other, geogrid, i + 1)

grid_operation(h, op, self, other) ==
  IF h[self].rect # h[other].rect
  THEN [exc |-> ValueError, heap |-> h, ref |-> 0]
  ELSE LET c == copy(h, self)
           r == Combine(c.heap, op, other, c.ref, 1)
       IN  IF r.exc = NoError
           THEN [exc |-> NoError, heap |-> r.heap, ref |-> c.ref]
           \* the exception leaves no reference to the copy
           ELSE [exc |-> r.exc, heap |-> SubSeq(r.heap, 1, Len(h)), ref |-> 0]

\* ---- from_img (lines 37-59) ----
\* Mutant: the raster is read without the vertical flip.
RECURSIVE LoadPixelsNoFlip(_, _, _, _)
LoadPixelsNoFlip(g, img, divisor, i) ==
  IF i >= img.size[1] * img.size[2] THEN [exc |-> NoError, grid |-> g]
  ELSE LET x == i \div img.size[2]
           y == i % img.size[2]
           mapy == y
       IN  IF divisor = 0 THEN [exc |-> ZeroDivisionError, grid |-> g]
           ELSE LET value == Norm(img.px[<<x, mapy>>], divisor)
                IN  IF SetRaises(g, value)
                    THEN [exc |-> ZeroDivisionError, grid |-> g]
                    ELSE LoadPixelsNoFlip(set_from_grid(g, <<y, x>>, value), img, divisor, i + 1)

\* The loops of lines 51-57 from the i-th pixel on (x outer, y inner).
RECURSIVE LoadPixels(_, _, _, _)
LoadPixels(g, img, divisor, i) ==
  IF i >= img.size[1] * img.size[2] THEN [exc |-> NoError, grid |-> g]
  ELSE LET x == i \div img.size[2]
           y == i % img.size[2]
           mapy == img.size[2] - (y + 1)
       IN  IF divisor = 0 THEN [exc |-> ZeroDivisionError, grid |-> g]
           ELSE LET value == Norm(img.px[<<x, mapy>>], divisor)
                IN  IF SetRaises(g, value)
                    THEN [exc |-> ZeroDivisionError, grid |-> g]
                    ELSE LoadPixels(set_from_grid(g, <<y, x>>, value), img, divisor, i + 1)

from_img(rect, img, divisor) ==
  IF InitRaises(rect, img.size)
  THEN [exc |-> ZeroDivisionError, grid |-> <<>>]
  ELSE LoadPixels(GeoGrid(rect, img.size, Num(0)), img, divisor, 0)

\* ---- inputs ----
Configs ==
  { [rect |-> << <<0, 0>>, <<4, 4>> >>, gridsize |-> <<2, 2>>, default |-> Num(0)],
    [rect |-> << <<5, 5>>, <<1, 1>> >>, gridsize |-> <<2, 2>>, default |-> Num(0)],
    [rect |-> << <<0, 0>>, <<4, 4>> >>, gridsize |-> <<2, 1>>, default |-> Num(1)],
    [rect |-> << <<0, 0>>, <<0, 4>> >>, gridsize |-> <<2, 2>>, default |-> Num(0)],
    [rect |-> << <<0, 0>>, <<4, 4>> >>, gridsize |-> <<0, 2>>, default |-> Num(0)],
    [rect |-> << <<0, 0>>, <<4, 4>> >>, gridsize |-> <<-2, 2>>, default |-> Num(0)] }

Coords == { <<0, 0>>, <<3, 1>> }

Values == { Num(0), Num(1), Num(2) }

GridIdx == { <<0, 1>>, <<1, 1>> }

\* A raster: size (width, height) and the red channel at (x, y).
Example == [size |-> <<2, 2>>,
            px |-> (<<0, 1>> :> 0) @@ (<<0, 0>> :> 255) @@ (<<1, 1>> :> 128) @@ (<<1, 0>> :> 64)]

Strip == [size |-> <<1, 2>>, px |-> (<<0, 0>> :> 255) @@ (<<0, 1>> :> 51)]

Blank == [size |-> <<2, 1>>, px |-> (<<0, 0>> :> 0) @@ (<<1, 0>> :> 0)]

Loads ==
  { [rect |-> << <<0, 0>>, <<4, 4>> >>, img |-> Example, divisor |-> 255],
    [rect |-> << <<5, 5>>, <<1, 1>> >>, img |-> Strip, divisor |-> 51],
    [rect |-> << <<0, 0>>, <<0, 4>> >>, img |-> Example, divisor |-> 255],
    [rect |-> << <<0, 0>>, <<4, 4>> >>, img |-> Blank, divisor |-> 0] }

Refs == 1..Len(heap)

NoCall == [call |-> "none"]

Init ==
  /\ heap = <<>>
  /\ last = NoCall
  /\ err = NoError
  /\ writes = 0

\* GeoGrid(rect, gridsize, default)
New ==
  \E c \in Configs :
    /\ Len(heap) < MaxGrids
    /\ last' = [call |-> "new", rect |-> c.rect, gridsize |-> c.gridsize]
    /\ IF InitRaises(c.rect, c.gridsize)
       THEN /\ err' = ZeroDivisionError
            /\ heap' = heap
       ELSE /\ err' = NoError
            /\ heap' = Append(heap, GeoGrid(c.rect, c.gridsize, c.default))
    /\ UNCHANGED writes

\* grid[coord] = value
Set ==
  \E r \in Refs, coord \in Coords, value \in Values :
    /\ writes < MaxWrites
    /\ writes' = writes + 1
    /\ last' = [call |-> "set", self |-> r, coord |-> coord, value |-> value]
    /\ IF SetRaises(heap[r], value)
       THEN /\ err' = ZeroDivisionError
            /\ heap' = heap
       ELSE /\ err' = NoError
            /\ heap' = [heap EXCEPT ![r] = SetItem(heap[r], coord, value)]

\* grid.set_from_grid(tile, value)
SetFromGrid ==
  \E r \in Refs, tile \in GridIdx, value \in Values :
    /\ writes < MaxWrites
    /\ writes' = writes + 1
    /\ last' = [call |-> "set_from_grid", self |-> r, tile |-> tile, value |-> value]
    /\ IF SetRaises(heap[r], value)
       THEN /\ err' = ZeroDivisionError
            /\ heap' = heap
       ELSE /\ err' = NoError
            /\ heap' = [heap EXCEPT ![r] = set_from_grid(heap[r], tile, value)]

\* GeoGrid.from_img(rect, file, divisor)
FromImg ==
  \E l \in Loads :
    /\ Len(heap) < MaxGrids
    /\ LET out == from_img(l.rect, l.img, l.divisor)
       IN  /\ err' = out.exc
           /\ heap' = IF out.exc = NoError THEN Append(heap, out.grid) ELSE heap
           /\ last' = [call |-> "from_img", rect |-> l.rect, img |-> l.img,
                       divisor |-> l.divisor,
                       result |-> IF out.exc = NoError THEN Len(heap) + 1 ELSE 0]
    /\ UNCHANGED writes

\* self op other, for the five operators
GridOp ==
  \E op \in Ops, self \in Refs, other \in Refs :
    /\ Len(heap) < MaxGrids
    /\ LET out == grid_operation(heap, op, self, other)
       IN  /\ out.exc # Unmodelled
           /\ err' = out.exc
           /\ heap' = out.heap
           /\ last' = [call |-> "op", op |-> op, self |-> self, other |-> other,
                       result |-> out.ref]
    /\ UNCHANGED writes

Next == New \/ Set \/ SetFromGrid \/ FromImg \/ GridOp

Spec == Init /\ [][Next]_vars

\* ---- properties ----
Positive(g) == \A d \in Axes : g.tilesize[d] > 0

InRect(g) ==
  { <<y, x>> : y \in g.rect[1][1]..g.rect[2][1], x \in g.rect[1][2]..g.rect[2][2] }

\* The tile of c is the greatest rect[0][d] + k*tilesize[d] not above c[d].
SnapsDown(g, c) ==
  LET tile == get_tile_of_coord(g, c)
  IN  \A d \in Axes :
        /\ tile[d] <= c[d]
        /\ c[d] < tile[d] + g.tilesize[d]
        /\ (tile[d] - g.rect[1][d]) % g.tilesize[d] = 0

AfterOp == last.call = "op" /\ err = NoError

SameGridsize == heap[last.self].gridsize = heap[last.other].gridsize

Positions(g) == { yield_grid(g)[i][1] : i \in 1..Len(g.store) }

Yielded(g) == { yield_grid(g)[i] : i \in 1..Len(g.store) }

\* C1: in every grid with positive tile sizes, every coordinate inside the
\* rectangle maps to the rectangle-aligned tile anchor that contains it:
\* tileOf(c)[d] <= c[d] < tileOf(c)[d] + tilesize[d] on both axes.
C1_TileSnapsDown ==
  \A r \in Refs :
    Positive(heap[r]) => \A c \in InRect(heap[r]) : SnapsDown(heap[r], c)

\* C2: after R = A op B on grids with the same rectangle and gridsize, for
\* every key k of B's storage R.get(k) = A.get(k) op B.get(k).
C2_OpCombinesValues ==
  (AfterOp /\ SameGridsize) =>
    \A k \in Keys(heap[last.other].store) :
      LET a == GetItem(heap[last.self], k)
          b == GetItem(heap[last.other], k)
      IN  ScalarRaises(last.op, a, b) = NoError =>
            GetItem(heap[last.result], k) = ScalarOp(last.op, a, b)

\* C3 as stated: after R = A op B on grids with the same rectangle and
\* gridsize, a key of B's storage that A's storage lacks is not in R's storage.
C3_NoTileOfOtherIntroduced ==
  (AfterOp /\ SameGridsize) =>
    \A k \in Keys(heap[last.other].store) \ Keys(heap[last.self].store) :
      k \notin Keys(heap[last.result].store)

\* C3 amended: such a key is absent from R's storage exactly when
\* A.default op B.get(k) equals A's default, and otherwise R stores that value.
C3_TileOfOtherIntroducedIffNonDefault ==
  (AfterOp /\ SameGridsize) =>
    \A k \in Keys(heap[last.other].store) \ Keys(heap[last.self].store) :
      LET v == ScalarOp(last.op, heap[last.self].default, DictGet(heap[last.other], k))
      IN  /\ (k \in Keys(heap[last.result].store)) <=> (v # heap[last.self].default)
          /\ k \in Keys(heap[last.result].store) => DictGet(heap[last.result], k) = v

C3_Witness ==
  /\ AfterOp /\ SameGridsize
  /\ last.self # last.other
  /\ \E k \in Keys(heap[last.other].store) \ Keys(heap[last.self].store) :
       k \in Keys(heap[last.result].store)
  /\ Keys(heap[last.self].store) # {}

\* C4: every grid of the heap, operand or result, stores only values that
\* differ from its default.
C4_SparseStorage ==
  \A r \in Refs :
    \A i \in 1..Len(heap[r].store) : heap[r].store[i][2] # heap[r].default

\* An operator result with entries, one of whose combined values is the default.
C4_Witness ==
  /\ AfterOp
  /\ heap[last.result].store # <<>>
  /\ heap[last.result].default # Num(0)
  /\ \E k \in Keys(heap[last.other].store) :
       LET a == GetItem(heap[last.self], k)
           b == GetItem(heap[last.other], k)
       IN  ScalarOp(last.op, a, b) = heap[last.self].default

\* C5: a step grid[c] = default leaves the whole heap, hence the grid's
\* storage, unchanged, and get(c) returns what it returned before.
C5_DefaultWriteIsNoOp ==
  [][ (last'.call = "set" /\ last'.value = heap[last'.self].default) =>
        /\ heap' = heap
        /\ ~TileRaises(heap[last'.self]) =>
             GetItem(heap'[last'.self], last'.coord) = GetItem(heap[last'.self], last'.coord)
    ]_vars

\* The default was written onto a tile that holds an entry.
C5_Witness ==
  /\ last.call = "set" /\ err = NoError
  /\ last.value = heap[last.self].default
  /\ HasKey(heap[last.self].store, get_tile_of_coord(heap[last.self], last.coord))

\* C6: an operator step, returning or raising, leaves every existing grid as
\* it was, and a write changes no grid but the one written.
C6_OperatorsArePure ==
  [][ /\ last'.call = "op" => \A r \in Refs : heap'[r] = heap[r]
      /\ last'.call \in {"set", "set_from_grid"} =>
           \A r \in Refs \ {last'.self} : heap'[r] = heap[r]
    ]_vars

\* An operator returned a grid whose storage differs from its left operand's.
C6_Witness ==
  /\ AfterOp
  /\ last.self # last.other
  /\ heap[last.result].store # heap[last.self].store
  /\ heap[last.self].store # <<>>

\* C7: constructing a grid with a gridsize component <= 0, or a rectangle
\* with zero extent on an axis, fails.
InvalidConfig(rect, gridsize) ==
  \/ \E d \in Axes : gridsize[d] <= 0
  \/ \E d \in Axes : rect[1][d] = rect[2][d]

C7_ConstructionRejectsInvalid ==
  (last.call = "new" /\ InvalidConfig(last.rect, last.gridsize)) => err # NoError

\* (row, column) indices of the grid: rows is gridsize[1], columns gridsize[0].
InGrid(g, idx) ==
  /\ 0 <= idx[1] /\ idx[1] < g.gridsize[2]
  /\ 0 <= idx[2] /\ idx[2] < g.gridsize[1]

AfterSetFromGrid == last.call = "set_from_grid" /\ err = NoError

\* C8 as stated: after set_from_grid(idx, v) with idx inside the grid,
\* yield_grid yields (idx, v), for every value v.
C8_RoundTrip ==
  (AfterSetFromGrid /\ InGrid(heap[last.self], last.tile)) =>
    <<last.tile, last.value>> \in Yielded(heap[last.self])

\* C8 amended: the same for every value v other than the grid's default.
C8_RoundTripNonDefault ==
  (/\ AfterSetFromGrid
   /\ InGrid(heap[last.self], last.tile)
   /\ last.value # heap[last.self].default) =>
    <<last.tile, last.value>> \in Yielded(heap[last.self])

\* A non-default value was written by index on a grid that already has entries.
C8_Witness ==
  /\ AfterSetFromGrid
  /\ InGrid(heap[last.self], last.tile)
  /\ last.value # heap[last.self].default
  /\ last.tile[1] # last.tile[2]
  /\ Len(heap[last.self].store) > 1

AfterFromImg == last.call = "from_img" /\ err = NoError

Sample(img, y, x) == img.px[<<x, img.size[2] - (y + 1)>>]

Pixels(img) == { <<y, x>> : y \in 0..(img.size[2] - 1), x \in 0..(img.size[1] - 1) }

\* C9 as stated: after from_img the populated tiles are exactly the w*h
\* index pairs (y, x), and the tile (y, x) holds red(x, h-(y+1)) / divisor.
C9_EveryPixelPopulated ==
  AfterFromImg =>
    LET g == heap[last.result]
    IN  /\ Positions(g) = Pixels(last.img)
        /\ Len(g.store) = last.img.size[1] * last.img.size[2]
        /\ \A idx \in Pixels(last.img) :
             GetItem(g, GridKey(g, idx)) = Norm(Sample(last.img, idx[1], idx[2]), last.divisor)

\* C9 amended: the populated tiles are exactly the index pairs whose sample
\* is not 0, one entry each; get at every (y, x) returns the flipped sample
\* over the divisor; the 2x2 example stores 255/255, 128/255, 64/255.
C9_NonZeroPixelsPopulated ==
  AfterFromImg =>
    LET g == heap[last.result]
        nonzero == { idx \in Pixels(last.img) : Sample(last.img, idx[1], idx[2]) # 0 }
    IN  /\ Positions(g) = nonzero
        /\ Len(g.store) = Cardinality(nonzero)
        /\ \A idx \in Pixels(last.img) :
             GetItem(g, GridKey(g, idx)) = Norm(Sample(last.img, idx[1], idx[2]), last.divisor)
        /\ (last.img = Example /\ last.divisor = 255) =>
             Yielded(g) = { << <<1, 0>>, <<1, 1>> >>,
                            << <<0, 1>>, <<128, 255>> >>,
                            << <<1, 1>>, <<64, 255>> >> }

C9_Witness ==
  /\ AfterFromImg
  /\ last.img = Example
  /\ Len(heap[last.result].store) = 3

\* C10: after A op B passed the rectangle test, every key of B's storage is
\* its own tile in A, whatever the gridsizes.
C10_KeysOfOtherAreTilesOfSelf ==
  AfterOp =>
    \A k \in Keys(heap[last.other].store) : get_tile_of_coord(heap[last.self], k) = k

====
